---------------------------- MODULE Spec2Model ----------------------------
(***************************************************************************)
(* A model of the scripts of the everyrow-make repository:                 *)
(*                                                                         *)
(*   - scripts/test-module.ts  (src/unnamed/part_000): testModuleStructure *)
(*     and the asynchronous flow testStartRankTaskFlow;                    *)
(*   - scripts/deploy.ts and its earlier version (src/unnamed/part_001,    *)
(*     lines 1-350): the deploy of an app to Make.com;                     *)
(*   - scripts/test-makecom-validation.ts (src/unnamed/part_001, lines     *)
(*     352-579): validateMakecomParameter.                                 *)
(*                                                                         *)
(* Each script is a specification of its own (SpecFlow, SpecDeploy,        *)
(* SpecStructure, SpecValidate); the variables of the other scripts stay   *)
(* at their idle values.  An asynchronous function is cut at its awaits:   *)
(* one action runs from the arrival of an awaited result to the next       *)
(* await.                                                                  *)
(***************************************************************************)
EXTENDS Integers, Sequences, FiniteSets, TLC

VARIABLES
    \* ---- scripts/test-module.ts: testStartRankTaskFlow ----
    pc,              \* position of testStartRankTaskFlow
    sent,            \* every request handed to fetch, in order
    inflight,        \* indices (in sent) of the requests not yet answered
    failedReqs,      \* requests answered by a non-200/201 status or a throw
    returned,        \* handles the server returned: session_id, task_id, artifact_id
    sessionId,       \* const sessionId        (line 243)
    artifactTaskId,  \* const artifactTaskId   (line 262)
    artifactId,      \* let artifactId         (line 267)
    rankTaskId,      \* const rankTaskId       (line 312)
    i,               \* loop counter of the artifact-wait loop (line 268)
    waits,           \* the delays handed to setTimeout (line 277), in order
    flowResults,     \* what the flow pushed to results (lines 315, 323)
    \* ---- scripts/deploy.ts ----
    script,          \* which deploy script runs: scripts/deploy.ts or its earlier version
    app,             \* the .imljson files of app/connections, app/modules, app/rpcs
    rerun,           \* the script has been run before, against the same Make.com app
    MAKE_API_KEY,    \* process.env.MAKE_API_KEY
    MAKE_APP_ID,     \* process.env.MAKE_APP_ID
    dpc,             \* position of the deploy script
    dir,             \* the directory main is in: connection, module or rpc
    listed,          \* number of .imljson files readdirSync listed in the current directory
    file,            \* index of the file being deployed in that listing
    config,          \* truthy sections of the file being deployed (readJsonFile)
    step,            \* next request of the deploy function being run
    existing,        \* the deploy function found its component in the remote list
    requests,        \* requests the current deploy function has sent, in order
    phases,          \* phases of all requests sent, in order, repeats collapsed
    appRead,         \* a file or directory of app/ has been read
    remote,          \* components known to exist on Make.com: found or created
    connectionNameMap, \* let connectionNameMap (deploy.ts line 323)
    results,         \* const results: DeployResult[]
    skipped,         \* components reported deployed without a PUT of some truthy section
    console,         \* the lines of the summary and of the errors printed
    exitCode,        \* exit status of the process (-1: running)
    \* ---- scripts/test-module.ts: testModuleStructure ----
    spc,             \* position of testModuleStructure
    listing,         \* what readdirSync returned for app/modules (line 68)
    files,           \* const files: the listing filtered (line 68)
    fileIndex,       \* number of files the loop of line 70 has handled
    contents,        \* what reading each handled file gave, in order
    structureResults, \* what testModuleStructure pushed to results
    \* ---- scripts/test-makecom-validation.ts ----
    vpc,             \* position of the validation of one parameter
    param,           \* the Parameter validated
    value,           \* the value validated
    collectionResult, \* validateMakecomParameter(param, value)
    stringResult,    \* validateMakecomParameter(param, the JSON string of value)
    \* ---- scripts/deploy.ts: the connection of a module ----
    cpc,             \* position of the resolution of one connection reference
    appConnections,  \* response.appConnections of the connection-list GET
    reference,       \* config.connection of the module
    connMap,         \* the Map getExistingConnections returns, in insertion order
    connectionName,  \* let connectionName (deployModule, line 164)
    \* ---- scripts/test-module.ts: processImlTemplate ----
    tpc,             \* position of the processing of one template
    template,        \* the template, a sequence of pieces of text
    context,         \* context.parameters.x, context.temp.x, context.body.x
    output           \* what processImlTemplate returned

flowVars == <<pc, sent, inflight, failedReqs, returned, sessionId, artifactTaskId,
              artifactId, rankTaskId, i, waits, flowResults>>

deployVars == <<script, app, rerun, MAKE_API_KEY, MAKE_APP_ID, dpc, dir, listed, file, config, step,
                existing, requests, phases, appRead, remote, connectionNameMap,
                results, skipped, console, exitCode>>

structureVars == <<spc, listing, files, fileIndex, contents, structureResults>>

validationVars == <<vpc, param, value, collectionResult, stringResult>>

resolveVars == <<cpc, appConnections, reference, connMap, connectionName>>

templateVars == <<tpc, template, context, output>>

vars == <<flowVars, deployVars, structureVars, validationVars, resolveVars,
          templateVars>>

-----------------------------------------------------------------------------
(***************************************************************************)
(* Bounds of the model.                                                    *)
(***************************************************************************)
MaxIds == 2          \* distinct handles the EveryRow API hands out
MaxFiles == 1        \* .imljson files in each of app/connections, app/modules, app/rpcs
MaxEntries == 2      \* entries of the directory app/modules
MaxItems == 2        \* items of an array value

(***************************************************************************)
(* Values.  A handle is a one-element tuple; NoValue stands for every      *)
(* falsy JavaScript value in its place (undefined, null, ""): the code     *)
(* only tests these values for truthiness or copies them.                  *)
(***************************************************************************)
NoValue == <<>>
Ids == {<<n>> : n \in 1..MaxIds}
Handles == Ids \cup {NoValue}
Truthy(v) == v # NoValue

-----------------------------------------------------------------------------
(***************************************************************************)
(* scripts/test-module.ts: apiRequest and testStartRankTaskFlow.           *)
(***************************************************************************)

\* The HTTP statuses the API answers with: the two the flow accepts and one
\* it does not.
StatusCodes == {200, 201, 500}

\* The task states of the API (README, Get Task Status).
TaskStates == {"pending", "running", "completed", "failed"}

\* The requests of the flow: method, endpoint and the fields of the body that
\* carry handles.  The status endpoint is /tasks/${artifactTaskId}/status.
Request(method, endpoint, session_id, task_id, task_type, input_artifacts) ==
    [method |-> method, endpoint |-> endpoint, session_id |-> session_id,
     task_id |-> task_id, task_type |-> task_type,
     input_artifacts |-> input_artifacts]

SessionReq == Request("POST", "/sessions/create", NoValue, NoValue, "none", <<>>)

ArtifactReq(sid) == Request("POST", "/tasks", sid, NoValue, "create_group", <<>>)

StatusReq(tid) == Request("GET", "/tasks/:id/status", NoValue, tid, "none", <<>>)

\* RankReq with the task id of the artifact task in place of the artifact id.
RankReqWrongHandle(sid, aid) ==
    Request("POST", "/tasks", sid, NoValue, "deep_rank", <<returned.task_id>>)

RankReq(sid, aid) == Request("POST", "/tasks", sid, NoValue, "deep_rank", <<aid>>)

\* What awaiting apiRequest yields: fetch or response.json() throws (threw),
\* or { status, data }, where data is null (isNull) or an object of which the
\* flow reads session_id, task_id, artifact_id and status.
Response(threw, status, isNull, session_id, task_id, artifact_id, state) ==
    [threw |-> threw, status |-> status, isNull |-> isNull,
     session_id |-> session_id, task_id |-> task_id,
     artifact_id |-> artifact_id, state |-> state]

Thrown == Response(TRUE, 500, TRUE, NoValue, NoValue, NoValue, "pending")

NullData == {Response(FALSE, s, TRUE, NoValue, NoValue, NoValue, "pending") :
                s \in StatusCodes}

SessionResponses ==
    {Thrown} \cup NullData \cup
    {Response(FALSE, s, FALSE, h, NoValue, NoValue, "pending") :
        s \in StatusCodes, h \in Handles}

TaskResponses ==
    {Thrown} \cup NullData \cup
    {Response(FALSE, s, FALSE, NoValue, h, NoValue, "pending") :
        s \in StatusCodes, h \in Handles}

StatusResponses ==
    {Thrown} \cup NullData \cup
    {Response(FALSE, s, FALSE, NoValue, NoValue, h, st) :
        s \in StatusCodes, h \in Handles, st \in TaskStates}

\* status !== 200 && status !== 201 (lines 239, 258, 308), negated.
StatusOk(res) == res.status = 200 \/ res.status = 201

\* A request that failed: it threw, or was answered by another status.
RequestFailed(res) == res.threw \/ ~StatusOk(res)

\* for (let i = 0; i < 30; i++)
MaxPolls == 30

\* setTimeout(r, 1000)
PollDelay == 1000

ModuleFiles == {"unreadable", "noParameters", "ok"}

\* apiRequest up to its await of fetch: the request is sent.  k is the
\* request whose answer the caller has just consumed (0: none).
apiRequest(req, k, next) ==
    /\ sent' = Append(sent, req)
    /\ inflight' = (inflight \ {k}) \cup {Len(sent) + 1}
    /\ pc' = next
    /\ flowResults' = flowResults

\* throw inside the try of testStartRankTaskFlow: the catch pushes a failed
\* result (lines 322-329).
Catch(message, k) ==
    /\ flowResults' = Append(flowResults,
            [name |-> "api:startRankTask", passed |-> FALSE, error |-> message])
    /\ pc' = "done"
    /\ inflight' = inflight \ {k}
    /\ sent' = sent

\* What the server answered is history: the handles of the last answer to
\* each kind of request.
Record(field, res, handle) ==
    returned' = IF res.threw \/ res.isNull THEN returned
                ELSE [returned EXCEPT ![field] = handle]

\* The last answer to a status GET: its artifact_id and its status.
RecordStatus(res) ==
    returned' = IF res.threw \/ res.isNull THEN returned
                ELSE [returned EXCEPT !.artifact_id = res.artifact_id,
                                      !.status = res.state]

NoteFailure(res, k) ==
    failedReqs' = IF RequestFailed(res)
                  THEN failedReqs \cup {[req |-> sent[k], threw |-> res.threw]}
                  ELSE failedReqs

\* StartFlow with the await of the session POST forgotten: the artifact POST
\* leaves at once, with sessionId still undefined.
StartFlowNoAwait ==
    /\ UNCHANGED <<deployVars, structureVars, validationVars, resolveVars, templateVars>>
    /\ pc = "start"
    /\ sent' = <<SessionReq, ArtifactReq(NoValue)>>
    /\ inflight' = {1, 2}
    /\ pc' = "awaitArtifact"
    /\ UNCHANGED <<flowResults, failedReqs, returned, sessionId, artifactTaskId,
                   artifactId, rankTaskId, i, waits>>

\* Lines 204-237: read the module file (outside the try: an error leaves the
\* function), look at module.parameters (inside it), send the session POST.
StartFlow ==
    /\ UNCHANGED <<deployVars, structureVars, validationVars, resolveVars, templateVars>>
    /\ pc = "start"
    /\ \E moduleFile \in ModuleFiles :
         IF moduleFile = "unreadable"
         THEN /\ pc' = "crashed"
              /\ UNCHANGED <<sent, inflight, flowResults>>
         ELSE IF moduleFile = "noParameters"
         THEN Catch("thrown", 0)
         ELSE apiRequest(SessionReq, 0, "awaitSession")
    /\ UNCHANGED <<failedReqs, returned, sessionId, artifactTaskId, artifactId,
                   rankTaskId, i, waits>>

\* OnSessionRes with a retry: a session POST answered by another status than
\* 200/201 is sent again.
OnSessionResRetry ==
    /\ UNCHANGED <<deployVars, structureVars, validationVars, resolveVars, templateVars>>
    /\ pc = "awaitSession"
    /\ \E k \in inflight, res \in SessionResponses :
         /\ sent[k].endpoint = "/sessions/create"
         /\ Record("session_id", res, res.session_id)
         /\ NoteFailure(res, k)
         /\ IF res.threw THEN Catch("thrown", k) /\ UNCHANGED sessionId
            ELSE IF ~StatusOk(res)
            THEN apiRequest(SessionReq, k, "awaitSession") /\ UNCHANGED sessionId
            ELSE IF res.isNull THEN Catch("thrown", k) /\ UNCHANGED sessionId
            ELSE /\ sessionId' = res.session_id
                 /\ apiRequest(ArtifactReq(res.session_id), k, "awaitArtifact")
    /\ UNCHANGED <<artifactTaskId, artifactId, rankTaskId, i, waits>>

\* Lines 235-256: the session answer arrives; the artifact POST is sent.
OnSessionRes ==
    /\ UNCHANGED <<deployVars, structureVars, validationVars, resolveVars, templateVars>>
    /\ pc = "awaitSession"
    /\ \E k \in inflight, res \in SessionResponses :
         /\ sent[k].endpoint = "/sessions/create"
         /\ Record("session_id", res, res.session_id)
         /\ NoteFailure(res, k)
         /\ IF res.threw THEN Catch("thrown", k) /\ UNCHANGED sessionId
            ELSE IF ~StatusOk(res)
            THEN Catch("Failed to create session", k) /\ UNCHANGED sessionId
            ELSE IF res.isNull THEN Catch("thrown", k) /\ UNCHANGED sessionId
            ELSE /\ sessionId' = res.session_id
                 /\ apiRequest(ArtifactReq(res.session_id), k, "awaitArtifact")
    /\ UNCHANGED <<artifactTaskId, artifactId, rankTaskId, i, waits>>

\* Lines 248-269: the artifact answer arrives; the loop starts with i = 0 and
\* sends the first status GET.
OnArtifactRes ==
    /\ UNCHANGED <<deployVars, structureVars, validationVars, resolveVars, templateVars>>
    /\ pc = "awaitArtifact"
    /\ \E k \in inflight, res \in TaskResponses :
         /\ sent[k].task_type = "create_group"
         /\ Record("task_id", res, res.task_id)
         /\ NoteFailure(res, k)
         /\ IF res.threw THEN Catch("thrown", k) /\ UNCHANGED <<artifactTaskId, i>>
            ELSE IF ~StatusOk(res)
            THEN Catch("Failed to create artifact", k) /\ UNCHANGED <<artifactTaskId, i>>
            ELSE IF res.isNull
            THEN Catch("thrown", k) /\ UNCHANGED <<artifactTaskId, i>>
            ELSE /\ artifactTaskId' = res.task_id
                 /\ i' = 0
                 /\ apiRequest(StatusReq(res.task_id), k, "awaitStatus")
    /\ UNCHANGED <<sessionId, artifactId, rankTaskId, waits>>

\* Lines 269-306: a status answer arrives.  An artifact_id ends the loop and
\* the rank POST is sent; status 'failed' throws; otherwise the loop sleeps.
\* The HTTP status of the answer is not looked at.
OnStatusRes ==
    /\ UNCHANGED <<deployVars, structureVars, validationVars, resolveVars, templateVars>>
    /\ pc = "awaitStatus"
    /\ \E k \in inflight, res \in StatusResponses :
         /\ sent[k].method = "GET"
         /\ RecordStatus(res)
         /\ NoteFailure(res, k)
         /\ IF res.threw \/ res.isNull
            THEN Catch("thrown", k) /\ UNCHANGED <<artifactId, waits>>
            ELSE IF Truthy(res.artifact_id)
            THEN /\ artifactId' = res.artifact_id
                 /\ apiRequest(RankReq(sessionId, res.artifact_id), k, "awaitRank")
                 /\ UNCHANGED waits
            ELSE IF res.state = "failed"
            THEN Catch("Artifact creation failed", k) /\ UNCHANGED <<artifactId, waits>>
            ELSE /\ waits' = Append(waits, PollDelay)
                 /\ pc' = "sleeping"
                 /\ inflight' = inflight \ {k}
                 /\ UNCHANGED <<sent, flowResults, artifactId>>
    /\ UNCHANGED <<sessionId, artifactTaskId, rankTaskId, i>>

\* OnTimer with the loop test off by one (i <= 30).
OnTimerOffByOne ==
    /\ UNCHANGED <<deployVars, structureVars, validationVars, resolveVars, templateVars>>
    /\ pc = "sleeping"
    /\ i' = i + 1
    /\ IF i + 1 <= MaxPolls
       THEN apiRequest(StatusReq(artifactTaskId), 0, "awaitStatus")
       ELSE Catch("Timeout waiting for artifact", 0)
    /\ UNCHANGED <<failedReqs, returned, sessionId, artifactTaskId, artifactId,
                   rankTaskId, waits>>

\* Lines 277, 268, 280-282: the timer fires; i++ and either the next status
\* GET or, the loop being over with artifactId still null, the timeout.
OnTimer ==
    /\ UNCHANGED <<deployVars, structureVars, validationVars, resolveVars, templateVars>>
    /\ pc = "sleeping"
    /\ i' = i + 1
    /\ IF i + 1 < MaxPolls
       THEN apiRequest(StatusReq(artifactTaskId), 0, "awaitStatus")
       ELSE Catch("Timeout waiting for artifact", 0)
    /\ UNCHANGED <<failedReqs, returned, sessionId, artifactTaskId, artifactId,
                   rankTaskId, waits>>

\* Lines 287-320: the rank answer arrives; the flow passes.
OnRankRes ==
    /\ UNCHANGED <<deployVars, structureVars, validationVars, resolveVars, templateVars>>
    /\ pc = "awaitRank"
    /\ \E k \in inflight, res \in TaskResponses :
         /\ sent[k].task_type = "deep_rank"
         /\ Record("rank_task_id", res, res.task_id)
         /\ NoteFailure(res, k)
         /\ IF res.threw THEN Catch("thrown", k) /\ UNCHANGED rankTaskId
            ELSE IF ~StatusOk(res)
            THEN Catch("Failed to create rank task", k) /\ UNCHANGED rankTaskId
            ELSE IF res.isNull THEN Catch("thrown", k) /\ UNCHANGED rankTaskId
            ELSE /\ rankTaskId' = res.task_id
                 /\ flowResults' = Append(flowResults,
                        [name |-> "api:startRankTask", passed |-> TRUE,
                         error |-> "none"])
                 /\ pc' = "done"
                 /\ inflight' = inflight \ {k}
                 /\ sent' = sent
    /\ UNCHANGED <<sessionId, artifactTaskId, artifactId, i, waits>>

FlowInit ==
    /\ pc = "start"
    /\ sent = <<>>
    /\ inflight = {}
    /\ failedReqs = {}
    /\ returned = [session_id |-> NoValue, task_id |-> NoValue,
                   artifact_id |-> NoValue, rank_task_id |-> NoValue,
                   status |-> "none"]
    /\ sessionId = NoValue
    /\ artifactTaskId = NoValue
    /\ artifactId = NoValue
    /\ rankTaskId = NoValue
    /\ i = 0
    /\ waits = <<>>
    /\ flowResults = <<>>

FlowNext ==
    \/ StartFlow
    \/ OnSessionRes
    \/ OnArtifactRes
    \/ OnStatusRes
    \/ OnTimer
    \/ OnRankRes

\* The flow does not run.
\* testModuleStructure is not running.
StructureIdle ==
    /\ spc = "idle"
    /\ listing = <<>>
    /\ files = <<>>
    /\ fileIndex = 0
    /\ contents = <<>>
    /\ structureResults = <<>>

\* No parameter is being validated.
ValidationIdle ==
    /\ vpc = "idle"
    /\ param = <<>>
    /\ value = <<>>
    /\ collectionResult = <<>>
    /\ stringResult = <<>>

\* No connection reference is being resolved.
ResolveIdle ==
    /\ cpc = "idle"
    /\ appConnections = <<>>
    /\ reference = ""
    /\ connMap = <<>>
    /\ connectionName = "null"

\* No template is being processed.
TemplateIdle ==
    /\ tpc = "idle"
    /\ template = <<>>
    /\ context = <<>>
    /\ output = <<>>

FlowIdle ==
    /\ pc = "idle"
    /\ sent = <<>>
    /\ inflight = {}
    /\ failedReqs = {}
    /\ returned = [session_id |-> NoValue, task_id |-> NoValue,
                   artifact_id |-> NoValue, rank_task_id |-> NoValue,
                   status |-> "none"]
    /\ sessionId = NoValue
    /\ artifactTaskId = NoValue
    /\ artifactId = NoValue
    /\ rankTaskId = NoValue
    /\ i = 0
    /\ waits = <<>>
    /\ flowResults = <<>>

\* The deploy script does not run.
DeployIdle ==
    /\ script = "none"
    /\ app = <<>>
    /\ rerun = FALSE
    /\ MAKE_API_KEY = "unset"
    /\ MAKE_APP_ID = "unset"
    /\ dpc = "idle"
    /\ dir = "none"
    /\ listed = 0
    /\ file = 0
    /\ config = {}
    /\ step = 1
    /\ existing = FALSE
    /\ requests = <<>>
    /\ phases = <<>>
    /\ appRead = FALSE
    /\ remote = {}
    /\ connectionNameMap = {}
    /\ results = <<>>
    /\ skipped = {}
    /\ console = <<>>
    /\ exitCode = -1

InitFlow == FlowInit /\ DeployIdle /\ StructureIdle /\ ValidationIdle
    /\ ResolveIdle /\ TemplateIdle

NextFlow == FlowNext

SpecFlow == InitFlow /\ [][NextFlow]_vars

\* Every request is answered or fails (fetch gives up after its timeouts) and
\* every timer fires.
FairSpecFlow == SpecFlow /\ WF_vars(NextFlow)

-----------------------------------------------------------------------------
(***************************************************************************)
(* scripts/deploy.ts, and its earlier version in src/unnamed/part_001.     *)
(*                                                                         *)
(* A request is one action: makeRequest sends it and awaits the answer     *)
(* before anything else runs.  A deploy function's requests are kept in    *)
(* requests for the time of the call; of all requests of the run the       *)
(* model keeps the phases, in order.                                       *)
(***************************************************************************)

Scripts == {"scripts/deploy.ts", "earlier"}

\* process.env.X: undefined, "" or a non-empty string.
EnvValues == {"unset", "empty", "value"}

\* A check for undefined only: the empty string passes.
FalsyOnlyUnset(env) == env = "unset"

\* !MAKE_API_KEY
Falsy(env) == env \in {"unset", "empty"}

Kinds == {"connection", "module", "rpc"}

\* The sections of a definition file that the deploy functions look at.
Fields(kind) ==
    IF kind = "module"
    THEN {"communication", "parameters", "interface", "samples"}
    ELSE {"communication", "parameters"}

\* A request of a deploy function: the method, the kind of component, the
\* endpoint (list, create, or the part of the component a PUT replaces) and,
\* for a PUT, the section of the file its body carries.
Call(method, part, body) == [method |-> method, part |-> part, body |-> body]

\* CallsNow with the PUTs of a connection that the earlier version sent.
CallsNowConnectionPuts(kind) ==
    IF kind = "connection"
    THEN <<Call("GET", "list", "none"), Call("POST", "create", "none"),
           Call("PUT", "api", "communication"),
           Call("PUT", "parameters", "parameters")>>
    ELSE IF kind = "module"
    THEN <<Call("GET", "list", "none"), Call("POST", "create", "none"),
           Call("PUT", "api", "communication"), Call("PUT", "expect", "parameters"),
           Call("PUT", "interface", "interface"), Call("PUT", "samples", "samples")>>
    ELSE <<Call("GET", "list", "none"), Call("POST", "create", "none"),
           Call("PUT", "api", "communication"),
           Call("PUT", "parameters", "parameters")>>

\* CallsNow with the PUT of a module's expect sent before the PUT of its api.
CallsNowExpectFirst(kind) ==
    IF kind = "connection"
    THEN <<Call("GET", "list", "none"), Call("POST", "create", "none")>>
    ELSE IF kind = "module"
    THEN <<Call("GET", "list", "none"), Call("POST", "create", "none"),
           Call("PUT", "expect", "parameters"), Call("PUT", "api", "communication"),
           Call("PUT", "interface", "interface"), Call("PUT", "samples", "samples")>>
    ELSE <<Call("GET", "list", "none"), Call("POST", "create", "none"),
           Call("PUT", "api", "communication"),
           Call("PUT", "parameters", "parameters")>>

\* The requests of a deploy function, in the order of its code.
CallsNow(kind) ==
    IF kind = "connection"
    THEN <<Call("GET", "list", "none"), Call("POST", "create", "none")>>
    ELSE IF kind = "module"
    THEN <<Call("GET", "list", "none"), Call("POST", "create", "none"),
           Call("PUT", "api", "communication"), Call("PUT", "expect", "parameters"),
           Call("PUT", "interface", "interface"), Call("PUT", "samples", "samples")>>
    ELSE <<Call("GET", "list", "none"), Call("POST", "create", "none"),
           Call("PUT", "api", "communication"),
           Call("PUT", "parameters", "parameters")>>

CallsEarlier(kind) ==
    IF kind = "module"
    THEN <<Call("POST", "create", "none"),
           Call("PUT", "api", "communication"), Call("PUT", "expect", "parameters"),
           Call("PUT", "interface", "interface"), Call("PUT", "samples", "samples")>>
    ELSE <<Call("POST", "create", "none"),
           Call("PUT", "api", "communication"),
           Call("PUT", "parameters", "parameters")>>

Calls(kind) ==
    IF script = "scripts/deploy.ts" THEN CallsNow(kind) ELSE CallsEarlier(kind)

\* Wanted with the create sent whether or not the component was found.
WantedAlwaysCreate(call, found, cfg) ==
    IF call.method \in {"GET", "POST"} THEN TRUE
    ELSE call.body \in cfg

\* Whether the function sends the request: the list always, the create when
\* the component was not found (earlier version: always), a PUT when
\* config.<section> is truthy.
Wanted(call, found, cfg) ==
    IF call.method = "GET" THEN TRUE
    ELSE IF call.method = "POST" THEN script = "earlier" \/ ~found
    ELSE call.body \in cfg

\* The next request the function sends, from position from on (0: none).
NextWanted(kind, from, found, cfg) ==
    LET W == {n \in from..Len(Calls(kind)) : Wanted(Calls(kind)[n], found, cfg)}
    IN  IF W = {} THEN 0 ELSE CHOOSE n \in W : \A m \in W : n <= m

\* The earlier version tries the create and goes on when it fails.
Swallowed(call) == script = "earlier" /\ call.method = "POST"

\* phases, with the phase of one more request.
Collapse(log, phase) ==
    IF log # <<>> /\ log[Len(log)] = phase THEN log ELSE Append(log, phase)

DeployResult(success, kind, n, error) ==
    [success |-> success, component |-> <<kind, n>>, error |-> error]

Line(text, component, error) ==
    [text |-> text, component |-> component, error |-> error]

\* A definition file that holds the JSON value null: it has no section, and
\* reading a property of it throws a TypeError.
NullConfig == {"null"}

\* main().catch without its process.exit(1): the process ends normally.
CrashNoExit(thrower) ==
    /\ console' = Append(console, Line("Deploy failed:", thrower, "thrown"))
    /\ exitCode' = 0
    /\ dpc' = "exited"

\* main().catch: 'Deploy failed:', exit 1.  thrower is what threw: main
\* itself, or the deploy function main was awaiting.
Crash(thrower) ==
    /\ console' = Append(console, Line("Deploy failed:", thrower, "thrown"))
    /\ exitCode' = 1
    /\ dpc' = "exited"

\* Lines 20-35 and 406: the checks of the environment, then main().
Load ==
    /\ dpc = "load"
    /\ IF Falsy(MAKE_API_KEY)
       THEN /\ console' = Append(console,
                    Line("Error: MAKE_API_KEY environment variable is required",
                         <<"env", 0>>, "none"))
            /\ exitCode' = 1
            /\ dpc' = "exited"
       ELSE IF Falsy(MAKE_APP_ID)
       THEN /\ console' = Append(console,
                    Line("Error: MAKE_APP_ID environment variable is required",
                         <<"env", 0>>, "none"))
            /\ exitCode' = 1
            /\ dpc' = "exited"
       ELSE /\ dpc' = "base"
            /\ UNCHANGED <<console, exitCode>>
    /\ UNCHANGED <<script, MAKE_API_KEY, MAKE_APP_ID, app, rerun, dir, listed, file, config, step,
                   existing, requests, phases, appRead, remote, connectionNameMap,
                   results, skipped>>
    /\ UNCHANGED <<flowVars, structureVars, validationVars, resolveVars, templateVars>>

\* deployBase / deployCommon: read the file, PUT it, report.
DeployWhole(kind, next) ==
    /\ appRead' = TRUE
    /\ \E outcome \in {"unreadable", "failed", "ok"} :
         /\ requests' = IF outcome = "unreadable" THEN <<>>
                        ELSE <<Call("PUT", kind, kind)>>
         /\ phases' = IF outcome = "unreadable" THEN phases
                      ELSE Collapse(phases, kind)
         /\ results' = Append(results,
                DeployResult(outcome = "ok", kind, 0,
                             IF outcome = "ok" THEN "none" ELSE outcome))
         /\ skipped' = skipped
    /\ dpc' = next
    /\ UNCHANGED <<script, MAKE_API_KEY, MAKE_APP_ID, app, rerun, listed, file, config, step,
                   existing, remote, connectionNameMap, console, exitCode>>
    /\ UNCHANGED <<flowVars, structureVars, validationVars, resolveVars, templateVars>>

deployBase ==
    /\ dpc = "base"
    /\ DeployWhole("base", "common")
    /\ UNCHANGED dir

deployCommon ==
    /\ dpc = "common"
    /\ DeployWhole("common", "list")
    /\ dir' = "connection"

\* AfterDir with the modules deployed before the connection map is fetched.
AfterDirNoMap ==
    IF dir = "connection"
    THEN dpc' = "list" /\ dir' = "module"
    ELSE IF dir = "module"
    THEN dpc' = "list" /\ dir' = "rpc"
    ELSE dpc' = "summary" /\ dir' = dir

\* What main does after the loop over a directory: scripts/deploy.ts fetches
\* the connection map after the connections; then modules, RPCs, summary.
AfterDir ==
    IF dir = "connection"
    THEN IF script = "scripts/deploy.ts"
         THEN dpc' = "connmap" /\ dir' = dir
         ELSE dpc' = "list" /\ dir' = "module"
    ELSE IF dir = "module"
    THEN dpc' = "list" /\ dir' = "rpc"
    ELSE dpc' = "summary" /\ dir' = dir

\* No deploy function is running: its locals are gone.
NoCall ==
    /\ config' = {}
    /\ step' = 1
    /\ existing' = FALSE
    /\ requests' = <<>>

\* fs.existsSync(dir) and fs.readdirSync(dir).filter(.imljson).
ListDir ==
    /\ dpc = "list"
    /\ LET n == app[dir]
       IN
         /\ listed' = n
         /\ appRead' = TRUE
         /\ IF n > 0 THEN dpc' = "read" /\ dir' = dir ELSE AfterDir
    /\ file' = 0
    /\ NoCall
    /\ UNCHANGED <<script, MAKE_API_KEY, MAKE_APP_ID, app, rerun, phases, remote,
                   connectionNameMap, results, skipped, console, exitCode>>
    /\ UNCHANGED <<flowVars, structureVars, validationVars, resolveVars, templateVars>>

\* The sections the requests of the call carried.
Carried(reqs) == {reqs[n].body : n \in {m \in DOMAIN reqs : reqs[m].method = "PUT"}}

\* The deploy function returns; main pushes the result and goes on to the
\* next file, or leaves the directory after file n, the last one.
Return(kind, n, success, reqs) ==
    /\ results' = Append(results,
            DeployResult(success, kind, n, IF success THEN "none" ELSE "failed"))
    /\ skipped' = IF success /\ ~(config \subseteq Carried(reqs))
                  THEN skipped \cup {<<kind, n>>} ELSE skipped
    /\ IF n < listed
       THEN dpc' = "read" /\ dir' = dir /\ listed' = listed /\ file' = n
       ELSE AfterDir /\ listed' = 0 /\ file' = 0

\* readJsonFile of the next file of the directory, in main: an error is not
\* caught by any deploy function.  Then the deploy function is called and
\* runs up to its first request.  On a null config deployConnection of
\* scripts/deploy.ts throws before its try (line 117); the functions of the
\* earlier version catch the TypeError and return a failure.
ReadFile ==
    /\ dpc = "read"
    /\ appRead' = TRUE
    /\ \/ /\ Crash(<<"main", 0>>)
          /\ NoCall
          /\ file' = file + 1
          /\ UNCHANGED <<dir, listed, results, skipped>>
       \/ \E cfg \in SUBSET Fields(dir) \cup {NullConfig} :
             IF cfg = NullConfig /\ script = "scripts/deploy.ts" /\ dir = "connection"
             THEN /\ Crash(<<dir, file + 1>>)
                  /\ NoCall
                  /\ file' = file + 1
                  /\ UNCHANGED <<dir, listed, results, skipped>>
             ELSE IF cfg = NullConfig /\ script = "earlier"
             THEN /\ Return(dir, file + 1, FALSE, <<>>)
                  /\ NoCall
                  /\ UNCHANGED <<console, exitCode>>
             ELSE /\ config' = cfg
                  /\ step' = 1
                  /\ existing' = FALSE
                  /\ requests' = <<>>
                  /\ dpc' = "call"
                  /\ file' = file + 1
                  /\ UNCHANGED <<console, exitCode, dir, listed, results, skipped>>
    /\ UNCHANGED <<script, MAKE_API_KEY, MAKE_APP_ID, app, rerun, phases, remote,
                   connectionNameMap>>
    /\ UNCHANGED <<flowVars, structureVars, validationVars, resolveVars, templateVars>>

\* One request of deployConnection, deployModule or deployRpc, with what
\* follows it up to the next request: a throw is caught and reported, the
\* answer to the list tells whether the component exists, a create adds it.
\* On a null config the functions of scripts/deploy.ts throw, inside their
\* try, right after the list.
Deploy(kind) ==
    /\ dpc = "call"
    /\ dir = kind
    /\ \E ok \in BOOLEAN, listedRemote \in BOOLEAN :
         LET call  == Calls(kind)[step]
             reqs  == Append(requests, call)
             found == IF call.method = "GET" /\ ok
                      THEN <<kind, file>> \in remote \/ listedRemote
                      ELSE existing
             next  == NextWanted(kind, step + 1, found, config)
         IN  /\ call.method # "GET" => ~listedRemote
             /\ ~ok => ~listedRemote
             /\ requests' = reqs
             /\ phases' = Collapse(phases, kind)
             /\ remote' = IF ok /\ (call.method = "POST" \/ found)
                          THEN remote \cup {<<kind, file>>} ELSE remote
             /\ IF (~ok /\ ~Swallowed(call)) \/ config = NullConfig
                THEN Return(kind, file, FALSE, reqs) /\ UNCHANGED <<step, existing>>
                ELSE IF next = 0
                THEN Return(kind, file, TRUE, reqs) /\ step' = step /\ existing' = found
                ELSE /\ step' = next
                     /\ existing' = found
                     /\ UNCHANGED <<results, skipped, dpc, dir, listed, file>>
    /\ UNCHANGED <<script, MAKE_API_KEY, MAKE_APP_ID, app, rerun, config, appRead,
                   connectionNameMap, console, exitCode>>
    /\ UNCHANGED <<flowVars, structureVars, validationVars, resolveVars, templateVars>>

deployConnection == Deploy("connection")

deployModule == Deploy("module")

deployRpc == Deploy("rpc")

\* scripts/deploy.ts line 355: connectionNameMap = await getExistingConnections().
getExistingConnections ==
    /\ dpc = "connmap"
    /\ phases' = Collapse(phases, "connmap")
    /\ \/ /\ connectionNameMap' = {c \in remote : c[1] = "connection"}
          /\ dpc' = "list"
          /\ dir' = "module"
          /\ UNCHANGED <<console, exitCode>>
       \/ /\ Crash(<<"main", 0>>)
          /\ UNCHANGED <<connectionNameMap, dir>>
    /\ NoCall
    /\ UNCHANGED <<script, MAKE_API_KEY, MAKE_APP_ID, app, rerun, listed, file, appRead, remote,
                   results, skipped>>
    /\ UNCHANGED <<flowVars, structureVars, validationVars, resolveVars, templateVars>>

Failed(rs) == SelectSeq(rs, LAMBDA r : ~r.success)

\* Summary with the process.exit(1) forgotten.
SummaryNoExit ==
    /\ dpc = "summary"
    /\ LET failed == Failed(results)
           list   == [n \in 1..Len(failed) |->
                        Line("failed", failed[n].component, failed[n].error)]
       IN  console' = console \o <<Line("=== Deploy Summary ===", <<"main", 0>>,
                                        "none")>> \o list
                              \o <<Line("Deploy complete!", <<"main", 0>>, "none")>>
    /\ exitCode' = 0
    /\ dpc' = "exited"
    /\ NoCall
    /\ UNCHANGED <<script, MAKE_API_KEY, MAKE_APP_ID, app, rerun, dir, listed, file, phases,
                   appRead, remote, connectionNameMap, results, skipped>>
    /\ UNCHANGED <<flowVars, structureVars, validationVars, resolveVars, templateVars>>

\* Lines 383-404: the summary; exit 1 when a result failed.
Summary ==
    /\ dpc = "summary"
    /\ LET failed == Failed(results)
           list   == [n \in 1..Len(failed) |->
                        Line("failed", failed[n].component, failed[n].error)]
       IN  /\ console' = IF Len(failed) > 0
                         THEN console \o <<Line("=== Deploy Summary ===",
                                                <<"main", 0>>, "none")>> \o list
                         ELSE console \o <<Line("=== Deploy Summary ===",
                                                <<"main", 0>>, "none"),
                                           Line("Deploy complete!",
                                                <<"main", 0>>, "none")>>
           /\ exitCode' = IF Len(failed) > 0 THEN 1 ELSE 0
    /\ dpc' = "exited"
    /\ NoCall
    /\ UNCHANGED <<script, MAKE_API_KEY, MAKE_APP_ID, app, rerun, dir, listed, file, phases,
                   appRead, remote, connectionNameMap, results, skipped>>
    /\ UNCHANGED <<flowVars, structureVars, validationVars, resolveVars, templateVars>>

\* The script is run again after a run that ended normally: same app
\* directory, same environment, and Make.com as the run left it.
Rerun ==
    /\ dpc = "exited"
    /\ exitCode = 0
    /\ rerun' = TRUE
    /\ dpc' = "load"
    /\ dir' = "none"
    /\ listed' = 0
    /\ file' = 0
    /\ NoCall
    /\ phases' = <<>>
    /\ appRead' = FALSE
    /\ connectionNameMap' = {}
    /\ results' = <<>>
    /\ skipped' = {}
    /\ console' = <<>>
    /\ exitCode' = -1
    /\ UNCHANGED <<script, app, MAKE_API_KEY, MAKE_APP_ID, remote>>
    /\ UNCHANGED <<flowVars, structureVars, validationVars, resolveVars, templateVars>>

\* The directories of app/: the number of .imljson files of each; a
\* directory that does not exist is skipped as one without such files is.
Apps == [Kinds -> 0..MaxFiles]

DeployInit ==
    /\ script \in Scripts
    /\ app \in Apps
    /\ rerun = FALSE
    /\ MAKE_API_KEY \in EnvValues
    /\ MAKE_APP_ID \in EnvValues
    /\ dpc = "load"
    /\ dir = "none"
    /\ listed = 0
    /\ file = 0
    /\ config = {}
    /\ step = 1
    /\ existing = FALSE
    /\ requests = <<>>
    /\ phases = <<>>
    /\ appRead = FALSE
    /\ remote = {}
    /\ connectionNameMap = {}
    /\ results = <<>>
    /\ skipped = {}
    /\ console = <<>>
    /\ exitCode = -1

DeployNext ==
    \/ Load
    \/ deployBase
    \/ deployCommon
    \/ ListDir
    \/ ReadFile
    \/ deployConnection
    \/ deployModule
    \/ deployRpc
    \/ getExistingConnections
    \/ Summary
    \/ Rerun

InitDeploy == DeployInit /\ FlowIdle /\ StructureIdle /\ ValidationIdle
    /\ ResolveIdle /\ TemplateIdle

NextDeploy == DeployNext

SpecDeploy == InitDeploy /\ [][NextDeploy]_vars

-----------------------------------------------------------------------------
(***************************************************************************)
(* testStartRankTaskFlow: the claims.                                      *)
(***************************************************************************)

IsSessionCreate(r) == r.method = "POST" /\ r.endpoint = "/sessions/create"

IsArtifactCreate(r) ==
    r.method = "POST" /\ r.endpoint = "/tasks" /\ r.task_type = "create_group"

IsStatusPoll(r) == r.method = "GET" /\ r.endpoint = "/tasks/:id/status"

IsRankSubmit(r) ==
    r.method = "POST" /\ r.endpoint = "/tasks" /\ r.task_type = "deep_rank"

\* A fetch of results: a GET that is no status poll.
IsResultsFetch(r) == r.method = "GET" /\ r.endpoint # "/tasks/:id/status"

Sent(P(_)) == {k \in DOMAIN sent : P(sent[k])}

FlowPassed ==
    /\ pc = "done"
    /\ flowResults # <<>>
    /\ flowResults[Len(flowResults)].passed

LastError ==
    IF flowResults # <<>> /\ ~flowResults[Len(flowResults)].passed
    THEN flowResults[Len(flowResults)].error
    ELSE "none"

\* The request before a request has been answered when it is sent: only the
\* last request sent can be in flight.
OneAtATime == inflight \subseteq {Len(sent)}

\* C1 as stated: the requests of the flow are the four steps create session,
\* create artifact, poll status, fetch results, in that order, a run that
\* passes having fetched the results, and one request at most is in flight.
C1_AsStated ==
    /\ \A k \in DOMAIN sent :
          \/ IsSessionCreate(sent[k]) \/ IsArtifactCreate(sent[k])
          \/ IsStatusPoll(sent[k]) \/ IsResultsFetch(sent[k])
    /\ \A a \in Sent(IsSessionCreate), b \in Sent(IsArtifactCreate) : a < b
    /\ \A a \in Sent(IsArtifactCreate), b \in Sent(IsStatusPoll) : a < b
    /\ \A a \in Sent(IsStatusPoll), b \in Sent(IsResultsFetch) : a < b
    /\ FlowPassed => Sent(IsResultsFetch) # {}
    /\ OneAtATime
    /\ Cardinality(inflight) <= 1

\* C1, amended: the requests of the flow are create session, create artifact,
\* the status polls and the submission of the rank task, in that order; no
\* results are fetched; a run passes only after all four steps; no step
\* begins before the answer to the previous request has arrived, so one
\* request at most is in flight.
C1_FixedSequence ==
    /\ \A k \in DOMAIN sent :
          /\ k = 1 => IsSessionCreate(sent[k])
          /\ k = 2 => IsArtifactCreate(sent[k])
          /\ k >= 3 => \/ IsStatusPoll(sent[k])
                       \/ IsRankSubmit(sent[k]) /\ k = Len(sent) /\ k >= 4
    /\ Sent(IsResultsFetch) = {}
    /\ FlowPassed => Sent(IsRankSubmit) # {}
    /\ OneAtATime
    /\ Cardinality(inflight) <= 1

\* A run that passed after three polls, its last request the rank-task POST.
C1_Witness ==
    /\ FlowPassed
    /\ Cardinality(Sent(IsStatusPoll)) = 3
    /\ Sent(IsRankSubmit) = {Len(sent)}

\* The step sends a request.
Sends == Len(sent') > Len(sent)

NewRequest == sent'[Len(sent')]

\* No request is sent twice but the status GET.
OnlyStatusRepeated ==
    \A a, b \in DOMAIN sent : a < b /\ sent[a] = sent[b] => IsStatusPoll(sent[a])

PostsOnce ==
    /\ Cardinality(Sent(IsSessionCreate)) <= 1
    /\ Cardinality(Sent(IsArtifactCreate)) <= 1
    /\ Cardinality(Sent(IsRankSubmit)) <= 1

\* C2 as stated: each POST is sent at most once, a request that failed (a
\* status other than 200/201, or a throw) is never sent again, and the only
\* request sent more than once is the status GET.
C2_AsStated ==
    /\ [](PostsOnce /\ OnlyStatusRepeated)
    /\ [][Sends => \A f \in failedReqs' : f.req # NewRequest]_vars

\* C2, amended: each POST is sent at most once and the only request sent more
\* than once is the status GET; a POST that failed is never sent again and no
\* request is sent after one that threw; the status GET is sent again also
\* after an answer with a status other than 200/201 (the loop does not look at
\* the HTTP status of a poll).
C2_NoRetry ==
    /\ [](PostsOnce /\ OnlyStatusRepeated)
    /\ [][Sends => \A f \in failedReqs' :
                      /\ ~f.threw
                      /\ f.req = NewRequest => IsStatusPoll(f.req)]_vars

\* A session POST failed and the run ended with that one request; and a poll
\* answered by status 500 was followed by another poll.
C2_Witness ==
    /\ pc = "awaitStatus"
    /\ \E f \in failedReqs : IsStatusPoll(f.req) /\ ~f.threw
    /\ Cardinality(Sent(IsStatusPoll)) >= 2

Polls == Cardinality(Sent(IsStatusPoll))

LoopEnded == Polls >= 1 /\ pc \in {"awaitRank", "done"}

EndsWithArtifact == Truthy(artifactId) /\ artifactId = returned.artifact_id

EndsFailed == LastError = "Artifact creation failed" /\ ~Truthy(artifactId)

EndsTimeout ==
    /\ LastError = "Timeout waiting for artifact"
    /\ Polls = 30
    /\ ~Truthy(returned.artifact_id)
    /\ ~Truthy(artifactId)

EndsThrown == LastError = "thrown" /\ ~Truthy(artifactId)

LinearPolling ==
    /\ Polls <= 30
    /\ \A a, b \in DOMAIN waits : waits[a] = waits[b]
    /\ \A a \in DOMAIN waits : waits[a] = 1000
    \* a wait lies between two consecutive polls (the last one before the
    \* end of the loop)
    /\ Len(waits) \in {Polls - 1, Polls}
    /\ Len(waits) >= Polls - 1
    \* the loop goes on only after an answer without artifact_id
    /\ pc = "sleeping" => ~Truthy(returned.artifact_id)

\* C3 as stated: at most 30 status requests with the same wait between them,
\* and the loop ends at the first answer carrying an artifact_id, or with the
\* error of a 'failed' status, or with the timeout error after 30 polls.
C3_AsStated ==
    /\ LinearPolling
    /\ LoopEnded => EndsWithArtifact \/ EndsFailed \/ EndsTimeout

\* C3, amended: at most 30 status requests with the same wait of 1000 ms
\* between consecutive polls; the loop always ends: at the first answer
\* carrying an artifact_id, or with the error of a 'failed' status, or with
\* 'Timeout waiting for artifact' after 30 polls none of which carried an
\* artifact_id, or with the error thrown by a status request (fetch or
\* response.json() throws, or the body is null).
C3_BoundedPolling ==
    /\ [](/\ LinearPolling
          /\ LoopEnded => EndsWithArtifact \/ EndsFailed \/ EndsTimeout
                             \/ EndsThrown)
    /\ <>(pc \in {"done", "crashed"})

\* The loop ran out: 30 polls, 30 waits, the timeout error.
C3_Witness == pc = "done" /\ EndsTimeout /\ Len(waits) = 30

\* C4: both task POSTs carry the session_id the session-create answer
\* returned, the status polls use the task_id the artifact-create answer
\* returned, and the rank task is submitted only after a poll returned an
\* artifact_id, with input_artifacts exactly that artifact_id.
C4_HandlesFromEarlierAnswers ==
    \A k \in DOMAIN sent :
        /\ sent[k].endpoint = "/tasks" => sent[k].session_id = returned.session_id
        /\ IsStatusPoll(sent[k]) => sent[k].task_id = returned.task_id
        /\ IsRankSubmit(sent[k]) =>
              /\ Truthy(returned.artifact_id)
              /\ sent[k].input_artifacts = <<returned.artifact_id>>
              /\ \E p \in Sent(IsStatusPoll) : p < k

\* A rank task was submitted with the session, task and artifact handles
\* the server returned, the task handle differing from the other two.
C4_Witness ==
    /\ Sent(IsRankSubmit) # {}
    /\ returned.session_id = <<1>>
    /\ returned.task_id = <<2>>
    /\ returned.artifact_id = <<1>>
    /\ sent[Len(sent)].input_artifacts = <<(<<1>>)>>

\* C11: after every status GET the flow proceeds to its next step only when
\* the status is 'completed', fails when the status is 'failed', and
\* otherwise waits and polls again; it never proceeds while the task is
\* pending or running.
C11_AsStated ==
    /\ Sent(IsRankSubmit) # {} => returned.status = "completed"
    /\ pc = "sleeping" => returned.status \in {"pending", "running"}
    /\ LastError = "Artifact creation failed" => returned.status = "failed"

-----------------------------------------------------------------------------
(***************************************************************************)
(* The deploy script: the claims.                                          *)
(***************************************************************************)

\* The place of a phase in the order base, common, connections, connection
\* map, modules, RPCs.
PhaseOrder == <<"base", "common", "connection", "connmap", "module", "rpc">>

Rank(phase) == CHOOSE n \in DOMAIN PhaseOrder : PhaseOrder[n] = phase

Before(p, q) ==
    \A a, b \in DOMAIN phases : phases[a] = p /\ phases[b] = q => a < b

\* C5: the requests are sent in the phase order base, common, connections,
\* modules, RPCs: every request of a connection before the first request of a
\* module, every request of a module before the first request of an RPC; and
\* scripts/deploy.ts fetches the connection-name map after the last
\* connection and before the first module or RPC request (its earlier
\* version has no such map).
C5_PhaseOrder ==
    /\ \A a, b \in DOMAIN phases : a < b => Rank(phases[a]) < Rank(phases[b])
    /\ Before("connection", "module") /\ Before("connection", "rpc")
    /\ Before("module", "rpc")
    /\ Before("base", "common") /\ Before("common", "connection")
    /\ script = "scripts/deploy.ts" =>
          /\ Before("connection", "connmap")
          /\ \A a \in DOMAIN phases :
                phases[a] \in {"module", "rpc"} =>
                   \E b \in DOMAIN phases : b < a /\ phases[b] = "connmap"
          /\ dpc \in {"call", "read"} /\ dir \in {"module", "rpc"} =>
                \E b \in DOMAIN phases : phases[b] = "connmap"
    /\ script = "earlier" => \A a \in DOMAIN phases : phases[a] # "connmap"

\* A run of scripts/deploy.ts that sent requests in all six phases.
C5_Witness ==
    /\ script = "scripts/deploy.ts"
    /\ phases = PhaseOrder
    /\ dpc = "exited"

AllSucceeded == \A n \in DOMAIN results : results[n].success

RunEnded == dpc = "exited" /\ ~Falsy(MAKE_API_KEY) /\ ~Falsy(MAKE_APP_ID)

Printed(text) == \E n \in DOMAIN console : console[n].text = text

\* The run reached the summary and reported every component as succeeded.
ReportedAllSucceeded ==
    RunEnded /\ Printed("=== Deploy Summary ===") /\ AllSucceeded

\* C6 as stated: when a run ends reporting every component as succeeded, a
\* PUT carrying each present section of every component file has been sent,
\* connections included.
C6_AsStated == ReportedAllSucceeded => skipped = {}

Complete == Printed("Deploy complete!") /\ exitCode = 0

FailedListed ==
    LET failed == Failed(results)
        lines  == SelectSeq(console, LAMBDA l : l.text = "failed")
    IN  /\ Len(lines) = Len(failed)
        /\ \A n \in DOMAIN failed :
              /\ lines[n].component = failed[n].component
              /\ lines[n].error = failed[n].error

\* C7 as stated: the run prints 'Deploy complete!' and ends normally if and
\* only if every DeployResult in results has success = true, and exits with
\* status 1, the failed components listed, when one failed.
C7_AsStated ==
    RunEnded =>
        /\ Complete <=> AllSucceeded
        /\ ~AllSucceeded => exitCode = 1 /\ FailedListed

\* C7, amended: a run that reaches the summary prints 'Deploy complete!' and
\* ends normally if and only if every DeployResult in results has
\* success = true, and exits with status 1 after listing each failed
\* component with its error when one failed; a run in which main throws
\* before the summary (a component file that cannot be read, a failed
\* connection-list GET) prints 'Deploy failed:' and exits with status 1
\* without a summary, whatever results holds.
C7_ExitStatus ==
    RunEnded =>
        IF Printed("=== Deploy Summary ===")
        THEN /\ Complete <=> AllSucceeded
             /\ ~AllSucceeded => exitCode = 1 /\ FailedListed
             /\ AllSucceeded => exitCode = 0
             /\ ~Printed("Deploy failed:")
        ELSE /\ exitCode = 1
             /\ ~Printed("Deploy complete!")
             /\ console[Len(console)].text = "Deploy failed:"

\* A run ended with status 1 after listing two failed components.
C7_Witness ==
    /\ RunEnded
    /\ exitCode = 1
    /\ Len(Failed(results)) = 2
    /\ FailedListed
    /\ Len(results) = 5

\* C8: when MAKE_API_KEY or MAKE_APP_ID is unset or empty, the script exits
\* with status 1 before reading any app file and before sending any request.
C8_EnvRequired ==
    /\ (Falsy(MAKE_API_KEY) \/ Falsy(MAKE_APP_ID)) /\ dpc # "load" =>
          /\ dpc = "exited"
          /\ exitCode = 1
          /\ ~appRead
          /\ phases = <<>>
          /\ requests = <<>>
          /\ results = <<>>
    /\ (MAKE_API_KEY \in {"unset", "empty"} \/ MAKE_APP_ID \in {"unset", "empty"}) =>
          dpc \in {"load", "exited"} /\ ~appRead /\ phases = <<>>

\* The script exited on an empty MAKE_APP_ID.
C8_Witness ==
    /\ dpc = "exited"
    /\ exitCode = 1
    /\ MAKE_API_KEY = "value"
    /\ MAKE_APP_ID = "empty"

Now == script = "scripts/deploy.ts"

\* The requests of the deploy function last called are those of a component
\* of a directory (not of base or common).
OfComponent == requests # <<>> /\ requests[1].part = "list"

Posted == \E n \in DOMAIN requests : requests[n].method = "POST"

\* The list has been answered: the function is still running, or has sent
\* a second request.
ListAnswered == OfComponent /\ (dpc = "call" \/ Len(requests) >= 2)

\* C12: scripts/deploy.ts sends the create POST of a connection, module or RPC
\* if and only if the list it fetched has no component of that label or
\* name; a run against the Make.com state that a fully successful run left
\* sends no POST.
C12_CreateOnlyAbsent ==
    Now =>
       /\ OfComponent /\ Posted => ~existing /\ requests[2].method = "POST"
       /\ ListAnswered /\ ~existing =>
             IF Len(requests) = 1 THEN Calls(dir)[step].method = "POST"
             ELSE requests[2].method = "POST"
       /\ ListAnswered /\ existing => ~Posted
       /\ \A a, b \in DOMAIN requests :
             requests[a].method = "POST" /\ requests[b].method = "POST" => a = b
       /\ rerun => ~Posted

\* A second run of scripts/deploy.ts deployed a connection, a module and an
\* RPC that the first run had left on Make.com, and ended normally.
C12_Witness ==
    /\ Now
    /\ rerun
    /\ dpc = "exited"
    /\ exitCode = 0
    /\ Len(results) = 5
    /\ Cardinality(remote) = 3

\* The components of the app directory, in the order main deploys them.
Components(kind) == [n \in 1..app[kind] |-> <<kind, n>>]

DeployOrder ==
    <<(<<"base", 0>>), (<<"common", 0>>)>> \o Components("connection")
        \o Components("module") \o Components("rpc")

\* C13: deployBase, deployCommon, deployConnection, deployModule and
\* deployRpc never throw: no run ends in main().catch on an error thrown by
\* one of them; and whenever the summary is reached, results holds one entry
\* for base, one for common and one for every connection, module and RPC
\* file, in deploy order.
C13_AsStated ==
    /\ \A n \in DOMAIN console :
          console[n].text = "Deploy failed:" => console[n].component = <<"main", 0>>
    /\ Printed("=== Deploy Summary ===") =>
          /\ Len(results) = 2 + app["connection"] + app["module"] + app["rpc"]
          /\ \A n \in DOMAIN results : results[n].component = DeployOrder[n]

\* The connection-list GET of main failed: the last request of the run is
\* that GET and main never went on to the modules.
ConnMapFailed ==
    /\ Now
    /\ dpc = "exited"
    /\ phases # <<>> /\ phases[Len(phases)] = "connmap"
    /\ dir = "connection"

\* C14: if the connection-list GET that main issues between the connections
\* and the modules fails, no module or RPC request is sent, no summary is
\* printed, the process exits with status 1 and nothing more happens.
C14_MapFailureAborts ==
    ConnMapFailed =>
       /\ exitCode = 1
       /\ ~Printed("=== Deploy Summary ===")
       /\ ~Printed("Deploy complete!")
       /\ console[Len(console)].text = "Deploy failed:"
       /\ \A a \in DOMAIN phases : phases[a] \notin {"module", "rpc"}
       /\ \A n \in DOMAIN results : results[n].component[1] \notin {"module", "rpc"}
       /\ ~ENABLED NextDeploy

\* The GET failed after base, common and a connection had been deployed, in
\* an app that has a module to deploy.
C14_Witness ==
    /\ ConnMapFailed
    /\ Len(results) = 3
    /\ AllSucceeded
    /\ app["module"] > 0

\* The kind of component whose deploy function sent the requests in requests.
KindOfCall == IF dpc = "call" THEN dir ELSE results[Len(results)].component[1]

\* The deploy function that sent requests has returned.
Returned == OfComponent /\ dpc # "call"

ReturnedSuccess == Returned /\ results[Len(results)].success

\* The requests deployModule sends when none fails: endpoint and section.
ModuleOrder ==
    <<(<<"GET", "list", "none">>), (<<"POST", "create", "none">>),
      (<<"PUT", "api", "communication">>), (<<"PUT", "expect", "parameters">>),
      (<<"PUT", "interface", "interface">>), (<<"PUT", "samples", "samples">>)>>

ModuleWanted ==
    SelectSeq(ModuleOrder, LAMBDA c : \/ c[1] = "GET"
                                      \/ c[1] = "POST" /\ ~existing
                                      \/ c[1] = "PUT" /\ c[3] \in config)

AsTuples(reqs) == [n \in DOMAIN reqs |-> <<reqs[n].method, reqs[n].part, reqs[n].body>>]

IsPrefix(a, b) == Len(a) <= Len(b) /\ a = SubSeq(b, 1, Len(a))

-----------------------------------------------------------------------------
(***************************************************************************)
(* scripts/test-module.ts: testModuleStructure.                            *)
(*                                                                         *)
(* A file name is the sequence of its parts, the extension ".imljson"      *)
(* being one part.  What reading and parsing a file gives is abstracted to *)
(* what the function tests: whether the read throws, what kind of JSON     *)
(* value the text is, which of the fields the function names are truthy,   *)
(* and what kind of value communication is.                                *)
(***************************************************************************)
EntryNames ==
    {<<"README", ".md">>, <<"a", ".imljson">>, <<"a", ".imljson", ".imljson">>,
     <<".imljson", "a", ".imljson">>}

\* The listings readdirSync can return: distinct names.
Listings ==
    UNION {{l \in [1..n -> EntryNames] : \A a, b \in 1..n : l[a] = l[b] => a = b}
           : n \in 0..MaxEntries}

\* f.endsWith('.imljson')
endsWith(name, part) == Len(name) > 0 /\ name[Len(name)] = part

\* file.replace('.imljson', ''): the first occurrence only
replace(name, part) ==
    LET at == {n \in DOMAIN name : name[n] = part}
    IN  IF at = {} THEN name
        ELSE LET first == CHOOSE n \in at : \A m \in at : n <= m
             IN  SubSeq(name, 1, first - 1) \o SubSeq(name, first + 1, Len(name))

CommunicationValues == {"undefined", "object", "empty array", "array"}

JsonKinds == {"invalid", "null", "primitive", "array", "object"}

\* What fs.readFileSync and JSON.parse give for a file.
FileContents ==
    {[readable |-> FALSE, json |-> "invalid", truthy |-> {},
      communication |-> "undefined"]}
    \cup {[readable |-> TRUE, json |-> j, truthy |-> {},
           communication |-> "undefined"] : j \in JsonKinds \ {"object"}}
    \cup {[readable |-> TRUE, json |-> "object", truthy |-> t, communication |-> c]
          : t \in SUBSET {"label", "type", "connection"}, c \in CommunicationValues}

\* The label, type and connection without the connection.
requiredFieldsNoConnection == <<"label", "type">>

\* const requiredFields
requiredFields == <<"label", "type", "connection">>

\* readFileSync or JSON.parse throws, or module[f] throws on null.
Throws(content) == ~content.readable \/ content.json \in {"invalid", "null"}

TestResult(name, passed, error) == [name |-> name, passed |-> passed, error |-> error]

\* One iteration of the loop over files: the result it pushes.
StructureResult(moduleFile, content) ==
    LET moduleName == replace(moduleFile, ".imljson")
        name == <<"structure:">> \o moduleName
        missingFields == SelectSeq(requiredFields, LAMBDA f : f \notin content.truthy)
    IN  IF Throws(content)
        THEN TestResult(name, FALSE, <<"JSON parse error">>)
        ELSE IF Len(missingFields) > 0
        THEN TestResult(name, FALSE, <<"Missing required fields">> \o missingFields)
        ELSE IF content.communication \notin {"empty array", "array"}
                \/ content.communication = "empty array"
        THEN TestResult(name, FALSE, <<"Missing or empty communication array">>)
        ELSE TestResult(name, TRUE, <<>>)

\* fs.readdirSync(modulesDir).filter(...); readdirSync throws when the
\* directory is missing, which ends the script in main().catch.
ListModules ==
    /\ spc = "start"
    /\ \/ /\ spc' = "crashed"
          /\ UNCHANGED <<listing, files>>
       \/ \E l \in Listings :
             /\ listing' = l
             /\ files' = SelectSeq(l, LAMBDA f : endsWith(f, ".imljson"))
             /\ spc' = IF files' = <<>> THEN "done" ELSE "loop"
    /\ UNCHANGED <<fileIndex, contents, structureResults>>
    /\ UNCHANGED <<flowVars, deployVars, validationVars, resolveVars, templateVars>>

\* for (const file of files) { ... }: one iteration
CheckModule ==
    /\ spc = "loop"
    /\ fileIndex < Len(files)
    /\ \E content \in FileContents :
          /\ structureResults' =
                Append(structureResults, StructureResult(files[fileIndex + 1], content))
          /\ contents' = Append(contents, content)
    /\ fileIndex' = fileIndex + 1
    /\ spc' = IF fileIndex' = Len(files) THEN "done" ELSE "loop"
    /\ UNCHANGED <<listing, files>>
    /\ UNCHANGED <<flowVars, deployVars, validationVars, resolveVars, templateVars>>

StructureInit ==
    /\ spc = "start"
    /\ listing = <<>>
    /\ files = <<>>
    /\ fileIndex = 0
    /\ contents = <<>>
    /\ structureResults = <<>>

InitStructure == StructureInit /\ FlowIdle /\ DeployIdle /\ ValidationIdle
    /\ ResolveIdle /\ TemplateIdle

NextStructure == ListModules \/ CheckModule

SpecStructure == InitStructure /\ [][NextStructure]_vars

-----------------------------------------------------------------------------
(***************************************************************************)
(* scripts/test-makecom-validation.ts: validateMakecomParameter.           *)
(*                                                                         *)
(* A JavaScript value is a record of its kind and its items: the items of  *)
(* an array are the kinds of its elements, the items of a string are the   *)
(* tokens of its text.                                                     *)
(***************************************************************************)
ItemKinds == {"object", "array", "string", "null", "number"}

Val(kind, items) == [kind |-> kind, items |-> items]

Arrays == UNION {{Val("array", a) : a \in [1..n -> ItemKinds]} : n \in 0..MaxItems}

Values ==
    {Val("undefined", <<>>), Val("null", <<>>), Val("number", <<>>),
     Val("boolean", <<>>), Val("object", <<>>),
     Val("string", <<>>), Val("string", <<"some text value">>)}
    \cup Arrays

\* typeof value
typeof(v) ==
    IF v.kind \in {"null", "array", "object"} THEN "object" ELSE v.kind

isArray(v) == v.kind = "array"

\* The JSON text of an item of an array.
ItemJson(item) ==
    IF item = "object" THEN "{...}"
    ELSE IF item = "array" THEN "[...]"
    ELSE IF item = "string" THEN "\"...\""
    ELSE IF item = "null" THEN "null"
    ELSE "42"

RECURSIVE Join(_)
Join(items) ==
    IF Len(items) = 0 THEN <<>>
    ELSE IF Len(items) = 1 THEN <<ItemJson(items[1])>>
    ELSE <<ItemJson(items[1]), ",">> \o Join(Tail(items))

\* The JSON string of a value, as TEST_INPUTS.jsonString is the JSON string
\* of TEST_INPUTS.collection; undefined has none.
jsonString(v) ==
    IF v.kind = "undefined" THEN v
    ELSE IF v.kind = "array" THEN Val("string", <<"[">> \o Join(v.items) \o <<"]">>)
    ELSE IF v.kind = "object" THEN Val("string", <<"{...}">>)
    ELSE IF v.kind = "string" THEN Val("string", <<"\"">> \o v.items \o <<"\"">>)
    ELSE IF v.kind = "null" THEN Val("string", <<"null">>)
    ELSE IF v.kind = "number" THEN Val("string", <<"42">>)
    ELSE Val("string", <<"true">>)

ParamTypes == {"text", "array", "boolean", "select", "other"}

\* param.spec: absent, [], a non-empty array, an object of type collection,
\* an object of another type, a string.
SpecValues == {"undefined", "[]", "[...]", "{type: collection}", "{type: text}", "string"}

Parameters == [type : ParamTypes, required : BOOLEAN, spec : SpecValues]

ValidationResult(valid, errors, warnings) ==
    [valid |-> valid, errors |-> errors, warnings |-> warnings]

\* case 'text' with the test for a non-array object forgotten
TextCaseArraysOnly(v) ==
    IF isArray(v)
    THEN ValidationResult(FALSE, <<<<"is type text but received array/collection">>>>, <<>>)
    ELSE ValidationResult(TRUE, <<>>, <<>>)

\* case 'text'
TextCase(v) ==
    IF isArray(v)
    THEN ValidationResult(FALSE, <<<<"is type text but received array/collection">>>>, <<>>)
    ELSE IF typeof(v) = "object" /\ v.kind # "null"
    THEN ValidationResult(FALSE, <<<<"is type text but received object">>>>, <<>>)
    ELSE ValidationResult(TRUE, <<>>, <<>>)

\* The warnings of the loop over the items of an array under a collection spec.
ItemWarnings(v) ==
    LET indices == [n \in 1..Len(v.items) |-> n]
        bad == SelectSeq(indices, LAMBDA n : v.items[n] \notin {"object", "null", "array"}
                                             \/ v.items[n] = "array")
    IN  [n \in 1..Len(bad) |-> <<"Array item should be an object", bad[n] - 1>>]

\* case 'array'
ArrayCase(p, v) ==
    IF ~isArray(v)
    THEN ValidationResult(FALSE, <<<<"expects array but got", typeof(v)>>>>, <<>>)
    ELSE IF p.spec = "[...]"
    THEN ValidationResult(TRUE, <<>>, <<<<"has array spec">>>>)
    ELSE IF p.spec \in {"{type: collection}", "{type: text}"}
    THEN IF p.spec = "{type: collection}"
         THEN ValidationResult(TRUE, <<>>, ItemWarnings(v))
         ELSE ValidationResult(TRUE, <<>>, <<>>)
    ELSE ValidationResult(TRUE, <<>>, <<>>)

validateMakecomParameter(p, v) ==
    IF p.required /\ v.kind \in {"undefined", "null"}
    THEN ValidationResult(FALSE, <<<<"Required parameter is missing">>>>, <<>>)
    ELSE IF p.type = "text" THEN TextCase(v)
    ELSE IF p.type = "array" THEN ArrayCase(p, v)
    ELSE IF p.type = "boolean"
    THEN IF typeof(v) # "boolean"
         THEN ValidationResult(TRUE, <<>>, <<<<"expects boolean but got", typeof(v)>>>>)
         ELSE ValidationResult(TRUE, <<>>, <<>>)
    ELSE IF p.type = "select" THEN ValidationResult(TRUE, <<>>, <<>>)
    ELSE ValidationResult(TRUE, <<>>, <<<<"Unknown parameter type">>>>)

\* const collectionResult = validateMakecomParameter(param, ...)
ValidateValue ==
    /\ vpc = "start"
    /\ collectionResult' = validateMakecomParameter(param, value)
    /\ vpc' = "validated"
    /\ UNCHANGED <<param, value, stringResult>>
    /\ UNCHANGED <<flowVars, deployVars, structureVars, resolveVars, templateVars>>

\* const stringResult = validateMakecomParameter(param, ...)
ValidateString ==
    /\ vpc = "validated"
    /\ stringResult' = validateMakecomParameter(param, jsonString(value))
    /\ vpc' = "done"
    /\ UNCHANGED <<param, value, collectionResult>>
    /\ UNCHANGED <<flowVars, deployVars, structureVars, resolveVars, templateVars>>

ValidationInit ==
    /\ vpc = "start"
    /\ param \in Parameters
    /\ value \in Values
    /\ collectionResult = <<>>
    /\ stringResult = <<>>

InitValidate == ValidationInit /\ FlowIdle /\ DeployIdle /\ StructureIdle
    /\ ResolveIdle /\ TemplateIdle

NextValidate == ValidateValue \/ ValidateString

SpecValidate == InitValidate /\ [][NextValidate]_vars

-----------------------------------------------------------------------------
(***************************************************************************)
(* testModuleStructure and validateMakecomParameter: the claims.           *)
(***************************************************************************)

\* The file parses as JSON, its label, type and connection are truthy and
\* its communication is a non-empty array.
WellFormed(content) ==
    /\ content.readable
    /\ content.json \notin {"invalid"}
    /\ {"label", "type", "connection"} \subseteq content.truthy
    /\ content.communication = "array"

ModuleFilesListed == {n \in DOMAIN listing : listing[n][Len(listing[n])] = ".imljson"}

\* C9: testModuleStructure records exactly one result per '.imljson' file of
\* the modules directory, in the order of the listing; the result is
\* passed = true if and only if the file parses as JSON, its label, type and
\* connection are truthy and its communication is a non-empty array; a file
\* that does not parse gets a failed result and the loop goes on to the
\* remaining files.
C9_OneResultPerFile ==
    /\ Len(structureResults) = fileIndex
    /\ Len(contents) = fileIndex
    /\ fileIndex <= Len(files)
    /\ Len(files) = Cardinality(ModuleFilesListed)
    /\ \A k \in 1..Len(files) : \E n \in ModuleFilesListed : files[k] = listing[n]
    /\ \A k \in 1..fileIndex :
          /\ structureResults[k].passed <=> WellFormed(contents[k])
          /\ structureResults[k].name[1] = "structure:"
          /\ \E n \in DOMAIN files[k] :
                /\ files[k][n] = ".imljson"
                /\ \A m \in 1..(n - 1) : files[k][m] # ".imljson"
                /\ Tail(structureResults[k].name) =
                      SubSeq(files[k], 1, n - 1) \o SubSeq(files[k], n + 1, Len(files[k]))
          /\ ~contents[k].readable \/ contents[k].json = "invalid" =>
                ~structureResults[k].passed
    /\ spc = "done" => fileIndex = Len(files)
    /\ spc = "loop" => fileIndex < Len(files)
    /\ spc \in {"start", "crashed", "idle"} => structureResults = <<>> /\ listing = <<>>

\* Two module files were checked: the first did not parse and failed, the
\* second is well formed and passed.
C9_Witness ==
    /\ spc = "done"
    /\ Len(files) = 2
    /\ contents[1].json = "invalid"
    /\ ~structureResults[1].passed
    /\ WellFormed(contents[2])
    /\ structureResults[2].passed

\* C10: for a parameter of type 'text', validateMakecomParameter returns
\* valid = false with one error when the value is an array or a non-null
\* object, and valid = true when it is a string, a number or a boolean; for
\* a parameter of type 'array' it returns valid = false if and only if the
\* value is not an array, whatever the spec; so a collection and its JSON
\* string are never both accepted by a text or array parameter.
C10_CollectionCaught ==
    /\ vpc \in {"validated", "done"} =>
          /\ param.type = "text" /\ value.kind \in {"array", "object"} =>
                ~collectionResult.valid /\ Len(collectionResult.errors) = 1
          /\ param.type = "text" /\ value.kind \in {"string", "number", "boolean"} =>
                collectionResult.valid
          /\ param.type = "array" =>
                (~collectionResult.valid <=> value.kind # "array")
    /\ vpc = "done" /\ param.type \in {"text", "array"}
       /\ value.kind \in {"array", "object"} =>
          ~(collectionResult.valid /\ stringResult.valid)

\* A text parameter rejected an object with one error and accepted its JSON
\* string.
C10_Witness ==
    /\ vpc = "done"
    /\ param.type = "text"
    /\ value.kind = "object"
    /\ ~collectionResult.valid
    /\ Len(collectionResult.errors) = 1
    /\ stringResult.valid

-----------------------------------------------------------------------------
(***************************************************************************)
(* scripts/deploy.ts: how deployModule resolves config.connection against  *)
(* the map of getExistingConnections.  A Map is the sequence of its        *)
(* entries in insertion order.                                             *)
(***************************************************************************)
MaxConnections == 2  \* connections of the Make.com app

\* Labels, names and references.
Strings == {"EveryRow API", "everyrow-api", "Other", "conn1"}

\* No config.connection: undefined, null or "".
NoReference == ""

Null == "null"

Connection(label, name) == [label |-> label, name |-> name]

ConnectionLists ==
    UNION {[1..n -> {Connection(l, m) : l \in Strings, m \in Strings}]
           : n \in 0..MaxConnections}

\* map.set(label, name): a new key goes to the end, a known key keeps its place.
MapSet(map, label, name) ==
    IF \E n \in DOMAIN map : map[n].label = label
    THEN [n \in DOMAIN map |->
            IF map[n].label = label THEN Connection(label, name) ELSE map[n]]
    ELSE Append(map, Connection(label, name))

\* connMap.get(label) || null
MapGet(map, label) ==
    IF \E n \in DOMAIN map : map[n].label = label
    THEN (CHOOSE e \in {map[n] : n \in DOMAIN map} : e.label = label).name
    ELSE Null

RECURSIVE BuildMap(_, _)
\* for (const conn of response.appConnections || []) map.set(conn.label, conn.name)
BuildMap(map, list) ==
    IF list = <<>> THEN map
    ELSE BuildMap(MapSet(map, Head(list).label, Head(list).name), Tail(list))

\* The label under which a reference is looked up, without the alias.
LabelOfNoAlias(ref) == ref

\* const label = config.connection === 'everyrow-api' ? 'EveryRow API' : config.connection
LabelOf(ref) == IF ref = "everyrow-api" THEN "EveryRow API" ELSE ref

\* deployModule, lines 164-179.
ResolveConnection(ref, map) ==
    IF ref = NoReference THEN Null
    ELSE LET byLabel == MapGet(map, LabelOf(ref))
             byName  == {n \in DOMAIN map : map[n].name = ref}
         IN  IF byLabel # Null THEN byLabel
             ELSE IF byName # {}
             THEN map[CHOOSE n \in byName : \A m \in byName : n <= m].name
             ELSE Null

\* connectionNameMap = await getExistingConnections(), the GET answered.
FetchConnections ==
    /\ cpc = "start"
    /\ connMap' = BuildMap(<<>>, appConnections)
    /\ cpc' = "fetched"
    /\ UNCHANGED <<appConnections, reference, connectionName>>
    /\ UNCHANGED <<flowVars, deployVars, structureVars, validationVars, templateVars>>

\* deployModule up to the create POST, which carries connection: connectionName.
ResolveReference ==
    /\ cpc = "fetched"
    /\ connectionName' = ResolveConnection(reference, connMap)
    /\ cpc' = "done"
    /\ UNCHANGED <<appConnections, reference, connMap>>
    /\ UNCHANGED <<flowVars, deployVars, structureVars, validationVars, templateVars>>

ResolveInit ==
    /\ cpc = "start"
    /\ appConnections \in ConnectionLists
    /\ reference \in Strings \cup {NoReference}
    /\ connMap = <<>>
    /\ connectionName = Null

InitResolve ==
    ResolveInit /\ FlowIdle /\ DeployIdle /\ StructureIdle /\ ValidationIdle
    /\ TemplateIdle

NextResolve == FetchConnections \/ ResolveReference

SpecResolve == InitResolve /\ [][NextResolve]_vars

\* The remote connections that have the label.
WithLabel(label) == {n \in DOMAIN appConnections : appConnections[n].label = label}

\* The names the label-to-name map holds: of several remote connections of
\* one label the map keeps the last.
MapNames ==
    {appConnections[n].name :
        n \in {m \in DOMAIN appConnections :
                 \A k \in DOMAIN appConnections :
                    appConnections[k].label = appConnections[m].label => k <= m}}

WithName(name) == {n \in DOMAIN appConnections : appConnections[n].name = name}

\* C17 as stated: the reference 'everyrow-api' is looked up under the label
\* 'EveryRow API', any other reference under itself; when no label matches,
\* a remote connection whose name equals the reference is used; when
\* neither matches the connection is null; without a connection in the
\* config it is null.
C17_AsStated ==
    cpc = "done" =>
       IF reference = NoReference THEN connectionName = Null
       ELSE LET label == IF reference = "everyrow-api" THEN "EveryRow API"
                         ELSE reference
            IN  IF WithLabel(label) # {}
                THEN connectionName \in
                        {appConnections[n].name : n \in WithLabel(label)}
                ELSE IF WithName(reference) # {}
                THEN connectionName = reference
                ELSE connectionName = Null

\* C17, amended: deployModule looks the reference 'everyrow-api' up in the
\* label-to-name map under the label 'EveryRow API' and any other reference
\* under itself as a label; when no label matches, a connection of the map
\* whose name equals the reference is used; when there is none either, the
\* connection is null; without a connection in the config it is always null.
C17_ConnectionResolved ==
    cpc = "done" =>
       IF reference = NoReference THEN connectionName = Null
       ELSE LET label == IF reference = "everyrow-api" THEN "EveryRow API"
                         ELSE reference
            IN  IF WithLabel(label) # {}
                THEN /\ connectionName \in MapNames
                     /\ connectionName \in
                           {appConnections[n].name : n \in WithLabel(label)}
                ELSE IF reference \in MapNames
                THEN connectionName = reference
                ELSE connectionName = Null

\* The reference 'everyrow-api' was resolved to the name of the connection
\* labelled 'EveryRow API', although another connection is named
\* 'everyrow-api'.
C17_Witness ==
    /\ cpc = "done"
    /\ reference = "everyrow-api"
    /\ appConnections = <<Connection("Other", "everyrow-api"),
                          Connection("EveryRow API", "conn1")>>
    /\ connectionName = "conn1"

-----------------------------------------------------------------------------
\* processImlTemplate (test-module.ts): four replace passes over one string.
\* A string is a sequence of tokens: a token is a piece of plain text or the
\* whole text of one placeholder.

MaxTemplate == 2   \* longest template, in tokens
MaxText == 1       \* longest string value of the context, in tokens

ParametersPlaceholder == "{{parameters.x}}"
TempPlaceholder == "{{temp.x}}"
BodyPlaceholder == "{{body.x}}"
ParseJSONPlaceholder == "{{parseJSON(parameters.x)}}"
ParseJSONOther == "{{parseJSON(x)}}"

Placeholders ==
    {ParametersPlaceholder, TempPlaceholder, BodyPlaceholder,
     ParseJSONPlaceholder, ParseJSONOther}

\* Plain text: "a" is not JSON; "[1, 2]" is JSON text that JSON.stringify
\* writes back without the space.
Tokens == {"a", "[1, 2]"} \cup Placeholders

TextsUpTo(n) == UNION {[1..k -> Tokens] : k \in 0..n}

Undefined == [kind |-> "undefined", text |-> <<>>]
StringValue(t) == [kind |-> "string", text |-> t]
ObjectValue(t) == [kind |-> "object", text |-> t]     \* the object {v: t}

ContextValues ==
    {Undefined} \cup {StringValue(t) : t \in TextsUpTo(MaxText)}
                \cup {ObjectValue(t) : t \in TextsUpTo(MaxText)}

Contexts == [parameters : ContextValues, temp : ContextValues, body : ContextValues]

RECURSIVE Flatten(_)
Flatten(ss) == IF ss = <<>> THEN <<>> ELSE Head(ss) \o Flatten(Tail(ss))

\* String.prototype.replace with a global pattern and a callback: every match
\* is replaced by what the callback returns, which is not scanned again.
replaceAll(str, matches, replacement) ==
    Flatten([n \in 1..Len(str) |->
                IF str[n] \in matches THEN replacement ELSE <<str[n]>>])

\* JSON.stringify of the object {v: t}.
stringify(v) == <<"{\"v\":\"">> \o v.text \o <<"\"}">>

\* The string a callback's return value becomes in the result.
AsString(v) ==
    CASE v.kind = "undefined" -> <<"undefined">>
      [] v.kind = "string"    -> v.text
      [] v.kind = "object"    -> <<"[object Object]">>

\* value || ''
OrEmpty(v) ==
    IF v.kind = "undefined" \/ (v.kind = "string" /\ v.text = <<>>)
    THEN <<>> ELSE AsString(v)

ParametersValue(ctx) ==
    IF ctx.parameters.kind = "object" THEN stringify(ctx.parameters)
    ELSE AsString(ctx.parameters)

TempValue(ctx) == OrEmpty(ctx.temp)

BodyValue(ctx) == OrEmpty(ctx.body)

\* JSON.parse throws on a string that is not JSON text.
ParseThrows(v) == v.kind = "string" /\ v.text # <<"[1, 2]">>

ParseJSONValue(ctx) ==
    CASE ctx.parameters.kind = "string"    -> <<"[1,2]">>
      [] ctx.parameters.kind = "object"    -> stringify(ctx.parameters)
      [] ctx.parameters.kind = "undefined" -> <<"undefined">>

ReplaceParameters ==
    /\ tpc = "parameters"
    /\ output' = replaceAll(output, {ParametersPlaceholder}, ParametersValue(context))
    /\ tpc' = "temp"
    /\ UNCHANGED <<template, context>>
    /\ UNCHANGED <<flowVars, deployVars, structureVars, validationVars, resolveVars>>

ReplaceTemp ==
    /\ tpc = "temp"
    /\ output' = replaceAll(output, {TempPlaceholder}, TempValue(context))
    /\ tpc' = "body"
    /\ UNCHANGED <<template, context>>
    /\ UNCHANGED <<flowVars, deployVars, structureVars, validationVars, resolveVars>>

ReplaceBody ==
    /\ tpc = "body"
    /\ output' = replaceAll(output, {BodyPlaceholder}, BodyValue(context))
    /\ tpc' = "parseJSON"
    /\ UNCHANGED <<template, context>>
    /\ UNCHANGED <<flowVars, deployVars, structureVars, validationVars, resolveVars>>

ReplaceParseJSON ==
    /\ tpc = "parseJSON"
    /\ IF /\ \E n \in 1..Len(output) : output[n] = ParseJSONPlaceholder
          /\ ParseThrows(context.parameters)
       THEN /\ tpc' = "thrown"
            /\ UNCHANGED output
       ELSE /\ tpc' = "done"
            /\ output' = replaceAll(replaceAll(output, {ParseJSONPlaceholder},
                                               ParseJSONValue(context)),
                                    {ParseJSONOther}, <<>>)
    /\ UNCHANGED <<template, context>>
    /\ UNCHANGED <<flowVars, deployVars, structureVars, validationVars, resolveVars>>

TemplateInit ==
    /\ tpc = "parameters"
    /\ template \in TextsUpTo(MaxTemplate)
    /\ context \in Contexts
    /\ output = template

InitTemplate ==
    TemplateInit /\ FlowIdle /\ DeployIdle /\ StructureIdle /\ ValidationIdle
    /\ ResolveIdle

NextTemplate == ReplaceParameters \/ ReplaceTemp \/ ReplaceBody \/ ReplaceParseJSON

SpecTemplate == InitTemplate /\ [][NextTemplate]_vars

-----------------------------------------------------------------------------
\* Claims about processImlTemplate.

\* What one placeholder stands for in the context.
ContextValue(token, ctx) ==
    CASE token = ParametersPlaceholder -> ParametersValue(ctx)
      [] token = TempPlaceholder       -> TempValue(ctx)
      [] token = BodyPlaceholder       -> BodyValue(ctx)
      [] token = ParseJSONPlaceholder  -> ParseJSONValue(ctx)
      [] token = ParseJSONOther        -> <<>>
      [] OTHER                         -> <<token>>

\* The template with all its placeholders replaced at once.
Simultaneous(str, ctx) ==
    Flatten([n \in 1..Len(str) |-> ContextValue(str[n], ctx)])

\* C18 as stated: processImlTemplate returns the template with every
\* placeholder replaced by its context value as in one simultaneous
\* substitution; text inserted for a placeholder is never expanded itself and
\* text outside placeholders is unchanged.
C18_AsStated ==
    tpc = "done" => output = Simultaneous(template, context)

=============================================================================
